---------------------------- MODULE Spec2Model ----------------------------
(***************************************************************************)
(* TrueTouch BLE-UART command protocol (family A: truetouch.cpp/.hpp) and  *)
(* the generic pin-control protocol (family B: bleuart_pin_ctrl), as a     *)
(* state machine: the peer sends frames, the transport delivers their      *)
(* bytes in arbitrary fragments, the driver loop calls service(), and the  *)
(* millisecond clock advances.                                             *)
(***************************************************************************)
EXTENDS Integers, Sequences, FiniteSets, TLC

(***************************************************************************)
(* Program constants.                                                      *)
(***************************************************************************)
\* A std::uint32_t is kept as its two 16-bit halves: value = hi * 2^16 + lo.
U32(hi, lo) == [hi |-> hi, lo |-> lo]

\* The uint32_t of a number below 2^31.
Word(n) == U32(n \div 65536, n % 65536)

SOLENOID_COUNT == 5
ERM_COUNT == 6

SOLENOID_WRITE == 1
SOLENOID_PULSE == 2
ERM_SET == 3

OUT_HIGH == 1

SizeofSolenoidWrite == 6
SizeofSolenoidPulse == 9
SizeofErmSet == 6

GPIO_CONFIGURE == 1
GPIO_SET == 2
GPIO_CLEAR == 3
GPIO_QUERY == 4
PWM_SET == 5
QUERY_STATE == 6

SizeofGpioConfigure == 10
SizeofGpioSet == 9
SizeofPwmSet == 10

GPIO_PIN_COUNT == 32

HIGH == 1
LOW == 0
INPUT == 0
OUTPUT == 1

(***************************************************************************)
(* Bounds of the model.                                                    *)
(***************************************************************************)
\* Frames the peer sends in one run (both families together).
MaxFrames == 2
\* Milliseconds the clock may run on while no pulse hold is pending.
MaxClock == 2
\* The longest pulse duration the peer asks for, in milliseconds.
MaxDuration == 2

(***************************************************************************)
(* util.hpp: bit helpers on 32-bit masks.                                  *)
(***************************************************************************)
\* mask & (1UL << n), for n in 0..31
Bit(x, n) ==
    IF n < 16 THEN (x.lo \div (2 ^ n)) % 2 ELSE (x.hi \div (2 ^ (n - 16))) % 2

\* mask & ~(1UL << n), for a set bit n
ClearBit(x, n) ==
    IF n < 16 THEN U32(x.hi, x.lo - (2 ^ n)) ELSE U32(x.hi - (2 ^ (n - 16)), x.lo)

Swap16(h) == ((h % 256) * 256) + (h \div 256)

\* Only the 16-bit halves exchanged, the bytes within them left in place.
byte_swap32_halves(input) == U32(input.lo, input.hi)

\* __builtin_bswap32
byte_swap32(input) == U32(Swap16(input.lo), Swap16(input.hi))

\* The bit test one position off.
is_set_next(mask, n) == IF n > 31 THEN FALSE ELSE Bit(mask, n + 1) = 1

is_set(mask, n) == IF n > 31 THEN FALSE ELSE Bit(mask, n) = 1

\* The scan from bit 0 upwards.
RECURSIVE ScanLowestBit(_, _)
ScanLowestBit(mask, i) ==
    IF i > 31 THEN -1
    ELSE IF Bit(mask, i) = 1 THEN i
    ELSE ScanLowestBit(mask, i + 1)

get_lowest_bit(mask) == ScanLowestBit(mask, 0)

\* The loop of get_highest_bit, from bit i downwards.
RECURSIVE ScanHighestBit(_, _)
ScanHighestBit(mask, i) ==
    IF i < 0 THEN -1
    ELSE IF Bit(mask, i) = 1 THEN i
    ELSE ScanHighestBit(mask, i - 1)

get_highest_bit(mask) == ScanHighestBit(mask, 31)

\* The bit found but not cleared.
clear_no_bit(mask) == mask

clear_highest_bit(mask) ==
    LET n == get_highest_bit(mask)
    IN  IF n >= 0 THEN ClearBit(mask, n) ELSE mask

\* Unsigned 32-bit arithmetic: a - b modulo 2^32, a < b, a + 1 modulo 2^32.
Sub32(a, b) ==
    LET borrow == IF a.lo < b.lo THEN 1 ELSE 0
    IN  U32((a.hi - b.hi - borrow + 65536) % 65536, (a.lo - b.lo + 65536) % 65536)

Less32(a, b) == a.hi < b.hi \/ (a.hi = b.hi /\ a.lo < b.lo)

Inc32(a) ==
    IF a.lo = 65535 THEN U32((a.hi + 1) % 65536, 0) ELSE U32(a.hi, a.lo + 1)

(***************************************************************************)
(* Wire format.  A frame is a packed struct; the peer puts 32-bit fields   *)
(* on the wire most significant byte first.                                *)
(***************************************************************************)
BE32(x) == << x.hi \div 256, x.hi % 256, x.lo \div 256, x.lo % 256 >>

\* memcpy of four buffer bytes onto a uint32_t field of the packed struct
\* (little-endian host), the field starting at 1-based position i.
LoadField32(buf, i) ==
    U32(buf[i + 2] + (256 * buf[i + 3]), buf[i] + (256 * buf[i + 1]))

Zeros(n) == [i \in 1..n |-> 0]

Take(s, n) == SubSeq(s, 1, n)
Drop(s, n) == SubSeq(s, n + 1, Len(s))

\* A read that drains the FIFO instead of reading sizeof(T) bytes.
parse_bytes_drain(fifo, size) ==
    IF Len(fifo) < size
    THEN [fifo |-> fifo, raw |-> Zeros(size)]
    ELSE [fifo |-> <<>>, raw |-> Take(fifo, size)]

\* A read that leaves the last byte of the frame in the FIFO.
parse_bytes_short(fifo, size) ==
    IF Len(fifo) < size
    THEN [fifo |-> fifo, raw |-> Zeros(size)]
    ELSE [fifo |-> Drop(fifo, size - 1), raw |-> Take(fifo, size)]

\* TrueTouch::parse_bytes<T>(): nothing is read when fewer than sizeof(T)
\* bytes are available, and T{} is returned.
parse_bytes(fifo, size) ==
    IF Len(fifo) < size
    THEN [fifo |-> fifo, raw |-> Zeros(size)]
    ELSE [fifo |-> Drop(fifo, size), raw |-> Take(fifo, size)]

\* The file-static parse_bytes<T>(uart) of family B: reads what is there
\* into a zeroed buffer.
parse_bytes_uart(fifo, size) ==
    LET n == IF Len(fifo) < size THEN Len(fifo) ELSE size
    IN  [fifo |-> Drop(fifo, n), raw |-> Take(fifo, n) \o Zeros(size - n)]

(***************************************************************************)
(* Pin I/O.  A pin write is logged as the table it goes through (the       *)
(* solenoid table, the ERM table, or a raw Arduino pin number of family    *)
(* B), the index, the primitive and the value.                             *)
(***************************************************************************)
Wr(tbl, idx, fn, val) == [tbl |-> tbl, idx |-> idx, fn |-> fn, val |-> val]

Level(fn, val) == [fn |-> fn, val |-> val]

\* The pins of one table after the writes ws, applied in order.
RECURSIVE ApplyWrites(_, _, _)
ApplyWrites(out, tbl, ws) ==
    IF ws = <<>> THEN out
    ELSE LET w == Head(ws)
         IN  ApplyWrites(IF w.tbl = tbl
                         THEN [out EXCEPT ![w.idx] = Level(w.fn, w.val)]
                         ELSE out,
                         tbl, Tail(ws))

\* for (pin_idx = i; pin_idx < count; ++pin_idx) if (is_set(bitset, pin_idx)) write
RECURSIVE WriteLoop(_, _, _, _, _, _)
WriteLoop(bitset, i, count, tbl, fn, val) ==
    IF i >= count THEN <<>>
    ELSE (IF is_set(bitset, i) THEN << Wr(tbl, i, fn, val) >> ELSE <<>>)
         \o WriteLoop(bitset, i + 1, count, tbl, fn, val)

Params(command, port, bitset, dur, arg) ==
    [command |-> command, port |-> port, bitset |-> bitset, dur |-> dur, arg |-> arg]

NoParams == Params(-1, Word(0), Word(0), Word(0), 0)

PulseJob(mask, dur, start) == [mask |-> mask, dur |-> dur, start |-> start]

\* What a handler did: the FIFO it leaves, the PulseJob it leaves, its pin
\* writes, the handlers that went past their width guard, the decoded frame.
Outcome(fifo, job, writes, acted, params) ==
    [fifo |-> fifo, job |-> job, writes |-> writes, acted |-> acted, params |-> params]

\* The width guard left out.
MissingBytesNever(number_of_bytes, size) == FALSE

\* The width guard one byte short.
MissingBytesOffByOne(number_of_bytes, size) == number_of_bytes < size - 1

\* if (number_of_bytes < sizeof(T)) return; // missing bytes
MissingBytes(number_of_bytes, size) == number_of_bytes < size

(***************************************************************************)
(* Family A handlers (class TrueTouch).                                    *)
(***************************************************************************)
handle_solenoid_write(fifo, job) ==
    IF MissingBytes(Len(fifo), SizeofSolenoidWrite)
    THEN Outcome(fifo, job, <<>>, <<>>, NoParams)
    ELSE LET p == parse_bytes(fifo, SizeofSolenoidWrite)
             finger_bitset == byte_swap32(LoadField32(p.raw, 2))
             output == p.raw[6]
         IN  Outcome(p.fifo, job,
                     WriteLoop(finger_bitset, 0, SOLENOID_COUNT, "solenoid",
                               "digitalWrite",
                               IF output = OUT_HIGH THEN HIGH ELSE LOW),
                     << "handle_solenoid_write" >>,
                     Params(p.raw[1], Word(0), finger_bitset, Word(0), output))

\* The upper limit of the range check taken one too high.
InvalidIndexOffByOne(pin_idx) == pin_idx < 0 \/ pin_idx > ERM_COUNT

\* The range check against the solenoid table instead of the ERM table.
InvalidIndexSolenoid(pin_idx) == pin_idx < 0 \/ pin_idx >= SOLENOID_COUNT

\* The range check without its upper limit.
InvalidIndexNegative(pin_idx) == pin_idx < 0

\* if (pin_idx < 0 || pin_idx >= ERM_COUNT)
InvalidIndex(pin_idx) == pin_idx < 0 \/ pin_idx >= ERM_COUNT

\* The store skipped for an empty mask.
StoreJobUnlessZero(job, finger_bitset, duration_ms) ==
    IF finger_bitset = Word(0) THEN job
    ELSE PulseJob(finger_bitset, duration_ms, job.start)

\* The store skipped while a job is live.
StoreJobIfIdle(job, finger_bitset, duration_ms) ==
    IF job.mask # Word(0) THEN job
    ELSE PulseJob(finger_bitset, duration_ms, job.start)

\* _fingers_to_pulse = params.finger_bitset; _pulse_dur_ms = params.duration_ms;
StoreJob(job, finger_bitset, duration_ms) ==
    PulseJob(finger_bitset, duration_ms, job.start)

\* The active actuator of a live job driven low before the mask is stored.
handle_solenoid_pulse_release(fifo, job, now) ==
    IF MissingBytes(Len(fifo), SizeofSolenoidPulse)
    THEN Outcome(fifo, job, <<>>, <<>>, NoParams)
    ELSE LET p == parse_bytes(fifo, SizeofSolenoidPulse)
             finger_bitset == byte_swap32(LoadField32(p.raw, 2))
             duration_ms == byte_swap32(LoadField32(p.raw, 6))
             params == Params(p.raw[1], Word(0), finger_bitset, duration_ms, 0)
             acted == << "handle_solenoid_pulse" >>
             release == IF job.mask = Word(0) THEN <<>>
                        ELSE << Wr("erm", get_highest_bit(job.mask), "digitalWrite", LOW) >>
             stored == StoreJob(job, finger_bitset, duration_ms)
             pin_idx == get_highest_bit(stored.mask)
         IN  IF stored.mask = Word(0)
             THEN Outcome(p.fifo, stored, release, acted, params)
             ELSE IF InvalidIndex(pin_idx)
             THEN Outcome(p.fifo, PulseJob(Word(0), stored.dur, stored.start),
                          release, acted, params)
             ELSE Outcome(p.fifo, PulseJob(stored.mask, stored.dur, now),
                          release \o << Wr("erm", pin_idx, "digitalWrite", HIGH) >>,
                          acted, params)

handle_solenoid_pulse(fifo, job, now) ==
    IF MissingBytes(Len(fifo), SizeofSolenoidPulse)
    THEN Outcome(fifo, job, <<>>, <<>>, NoParams)
    ELSE LET p == parse_bytes(fifo, SizeofSolenoidPulse)
             finger_bitset == byte_swap32(LoadField32(p.raw, 2))
             duration_ms == byte_swap32(LoadField32(p.raw, 6))
             params == Params(p.raw[1], Word(0), finger_bitset, duration_ms, 0)
             acted == << "handle_solenoid_pulse" >>
             stored == StoreJob(job, finger_bitset, duration_ms)
             pin_idx == get_highest_bit(stored.mask)
         IN  IF stored.mask = Word(0)
             THEN Outcome(p.fifo, stored, <<>>, acted, params)
             ELSE IF InvalidIndex(pin_idx)
             THEN Outcome(p.fifo, PulseJob(Word(0), stored.dur, stored.start),
                          <<>>, acted, params)
             ELSE Outcome(p.fifo, PulseJob(stored.mask, stored.dur, now),
                          << Wr("erm", pin_idx, "digitalWrite", HIGH) >>,
                          acted, params)

handle_erm_set(fifo, job) ==
    IF MissingBytes(Len(fifo), SizeofErmSet)
    THEN Outcome(fifo, job, <<>>, <<>>, NoParams)
    ELSE LET p == parse_bytes(fifo, SizeofErmSet)
             finger_bitset == byte_swap32(LoadField32(p.raw, 2))
             intensity == p.raw[6]
         IN  Outcome(p.fifo, job,
                     WriteLoop(finger_bitset, 0, ERM_COUNT, "erm",
                               "analogWrite", intensity),
                     << "handle_erm_set" >>,
                     Params(p.raw[1], Word(0), finger_bitset, Word(0), intensity))

\* The hold measured from clock value 0 instead of from the pulse start.
HoldPendingFromZero(now, start, dur) == Less32(now, dur)

\* The difference taken as 0 when the clock value is below the start value,
\* instead of modulo 2^32.
HoldPendingSaturating(now, start, dur) ==
    Less32(IF Less32(now, start) THEN Word(0) ELSE Sub32(now, start), dur)

\* millis() - _pulse_start_ms < _pulse_dur_ms
HoldPending(now, start, dur) == Less32(Sub32(now, start), dur)

\* The scheduler tick: [job, writes].
service_gpio_pulse(job, now) ==
    IF job.mask = Word(0) THEN [job |-> job, writes |-> <<>>]
    ELSE IF HoldPending(now, job.start, job.dur) THEN [job |-> job, writes |-> <<>>]
    ELSE LET pin_idx == get_highest_bit(job.mask)
             rest == clear_highest_bit(job.mask)
             next_idx == get_highest_bit(rest)
             off == Wr("erm", pin_idx, "digitalWrite", LOW)
         IN  IF InvalidIndex(pin_idx)
             THEN [job |-> PulseJob(Word(0), job.dur, job.start), writes |-> <<>>]
             ELSE IF rest = Word(0)
             THEN [job |-> PulseJob(Word(0), job.dur, Word(0)), writes |-> << off >>]
             ELSE IF InvalidIndex(next_idx)
             THEN [job |-> PulseJob(Word(0), job.dur, job.start), writes |-> << off >>]
             ELSE [job |-> PulseJob(rest, job.dur, now),
                   writes |-> << off, Wr("erm", next_idx, "digitalWrite", HIGH) >>]

\* The dispatcher skipped while a pulse job is live.
DispatchAWhenIdle(fifo, job, now) ==
    IF Len(fifo) <= 0 \/ job.mask # Word(0) THEN Outcome(fifo, job, <<>>, <<>>, NoParams)
    ELSE LET command == Head(fifo)
         IN  CASE command = SOLENOID_WRITE -> handle_solenoid_write(fifo, job)
               [] command = SOLENOID_PULSE -> handle_solenoid_pulse(fifo, job, now)
               [] command = ERM_SET -> handle_erm_set(fifo, job)
               [] OTHER -> Outcome(fifo, job, <<>>, <<>>, NoParams)

\* A byte that is no opcode read and dropped.
DispatchASkipUnknown(fifo, job, now) ==
    IF Len(fifo) <= 0 THEN Outcome(fifo, job, <<>>, <<>>, NoParams)
    ELSE LET command == Head(fifo)
         IN  CASE command = SOLENOID_WRITE -> handle_solenoid_write(fifo, job)
               [] command = SOLENOID_PULSE -> handle_solenoid_pulse(fifo, job, now)
               [] command = ERM_SET -> handle_erm_set(fifo, job)
               [] OTHER -> Outcome(Tail(fifo), job, <<>>, <<>>, NoParams)

\* The dispatcher part of TrueTouch::service(), after the tick.
DispatchA(fifo, job, now) ==
    IF Len(fifo) <= 0 THEN Outcome(fifo, job, <<>>, <<>>, NoParams)
    ELSE LET command == Head(fifo)
         IN  CASE command = SOLENOID_WRITE -> handle_solenoid_write(fifo, job)
               [] command = SOLENOID_PULSE -> handle_solenoid_pulse(fifo, job, now)
               [] command = ERM_SET -> handle_erm_set(fifo, job)
               [] OTHER -> Outcome(fifo, job, <<>>, <<>>, NoParams)

(***************************************************************************)
(* Family B handlers (namespace BleUartPinCtrl).                           *)
(***************************************************************************)
handle_gpio_configure(fifo, job) ==
    IF MissingBytes(Len(fifo), SizeofGpioConfigure)
    THEN Outcome(fifo, job, <<>>, <<>>, NoParams)
    ELSE LET p == parse_bytes_uart(fifo, SizeofGpioConfigure)
             gpio_port == byte_swap32(LoadField32(p.raw, 2))
             gpio_bitset == byte_swap32(LoadField32(p.raw, 6))
             gpio_direction == p.raw[10]
         IN  Outcome(p.fifo, job,
                     WriteLoop(gpio_bitset, 0, GPIO_PIN_COUNT, "gpio_mode", "pinMode",
                               IF gpio_direction = 0 THEN INPUT ELSE OUTPUT),
                     << "handle_gpio_configure" >>,
                     Params(p.raw[1], gpio_port, gpio_bitset, Word(0), gpio_direction))

handle_gpio_write(fifo, job, high) ==
    IF MissingBytes(Len(fifo), SizeofGpioSet)
    THEN Outcome(fifo, job, <<>>, <<>>, NoParams)
    ELSE LET p == parse_bytes_uart(fifo, SizeofGpioSet)
             gpio_port == byte_swap32(LoadField32(p.raw, 2))
             gpio_bitset == byte_swap32(LoadField32(p.raw, 6))
         IN  Outcome(p.fifo, job,
                     WriteLoop(gpio_bitset, 0, GPIO_PIN_COUNT, "gpio",
                               "digitalWrite", IF high THEN HIGH ELSE LOW),
                     << "handle_gpio_write" >>,
                     Params(p.raw[1], gpio_port, gpio_bitset, Word(0), 0))

handle_pwm_set(fifo, job) ==
    IF MissingBytes(Len(fifo), SizeofPwmSet)
    THEN Outcome(fifo, job, <<>>, <<>>, NoParams)
    ELSE LET p == parse_bytes_uart(fifo, SizeofPwmSet)
             gpio_port == byte_swap32(LoadField32(p.raw, 2))
             gpio_bitset == byte_swap32(LoadField32(p.raw, 6))
             intensity == p.raw[10]
         IN  Outcome(p.fifo, job,
                     WriteLoop(gpio_bitset, 0, GPIO_PIN_COUNT, "gpio",
                               "analogWrite", intensity),
                     << "handle_pwm_set" >>,
                     Params(p.raw[1], gpio_port, gpio_bitset, Word(0), intensity))

\* A query handler that reads its opcode byte.
handle_gpio_query_read(fifo, job) == Outcome(Tail(fifo), job, <<>>, <<>>, NoParams)

\* Both print a TODO line and return: no read, no pin I/O.
handle_gpio_query(fifo, job) == Outcome(fifo, job, <<>>, <<>>, NoParams)

handle_query_state(fifo, job) == Outcome(fifo, job, <<>>, <<>>, NoParams)

DispatchB(fifo, job) ==
    IF Len(fifo) <= 0 THEN Outcome(fifo, job, <<>>, <<>>, NoParams)
    ELSE LET command == Head(fifo)
         IN  CASE command = GPIO_CONFIGURE -> handle_gpio_configure(fifo, job)
               [] command = GPIO_SET -> handle_gpio_write(fifo, job, TRUE)
               [] command = GPIO_CLEAR -> handle_gpio_write(fifo, job, FALSE)
               [] command = GPIO_QUERY -> handle_gpio_query(fifo, job)
               [] command = PWM_SET -> handle_pwm_set(fifo, job)
               [] command = QUERY_STATE -> handle_query_state(fifo, job)
               [] OTHER -> Outcome(fifo, job, <<>>, <<>>, NoParams)

(***************************************************************************)
(* The peer: the frames it may send, and their bytes on the wire.          *)
(***************************************************************************)
UNKNOWN_OPCODE == 7

Frame(op, port, mask, dur, arg) ==
    [op |-> op, port |-> port, mask |-> mask, dur |-> dur, arg |-> arg]

\* bits 0, 2, 5, 31
WriteMasks == {U32(32768, 37)}
\* {} ; bits 1, 3, 4 ; bit 5 ; bits 1, 6
PulseMasks == {Word(0), Word(26), Word(32), Word(66)}
\* bits 1, 4, 6, 24
ErmMasks == {U32(256, 82)}
\* bits 0, 31
GpioMasks == {U32(32768, 1)}
Durations == {Word(0), Word(MaxDuration)}
\* OUT_LOW, OUT_HIGH, and a byte that is neither
Levels == {0, 1, 2}
Intensities == {0, 200}
Directions == {0, 1}

FramesA ==
    {Frame(SOLENOID_WRITE, Word(0), m, Word(0), l) : m \in WriteMasks, l \in Levels}
    \cup {Frame(SOLENOID_PULSE, Word(0), m, d, 0) : m \in PulseMasks, d \in Durations}
    \cup {Frame(ERM_SET, Word(0), m, Word(0), v) : m \in ErmMasks, v \in Intensities}
    \cup {Frame(UNKNOWN_OPCODE, Word(0), Word(0), Word(0), 0)}

FramesB ==
    {Frame(GPIO_CONFIGURE, Word(1), m, Word(0), d) : m \in GpioMasks, d \in Directions}
    \cup {Frame(op, Word(1), m, Word(0), 0) : op \in {GPIO_SET, GPIO_CLEAR}, m \in GpioMasks}
    \cup {Frame(PWM_SET, Word(1), m, Word(0), 200) : m \in GpioMasks}
    \cup {Frame(op, Word(0), Word(0), Word(0), 0) :
              op \in {GPIO_QUERY, QUERY_STATE, UNKNOWN_OPCODE}}

\* The packed structs of truetouch.hpp, 32-bit fields big-endian.
EncodeA(f) ==
    CASE f.op = SOLENOID_WRITE -> << f.op >> \o BE32(f.mask) \o << f.arg >>
      [] f.op = SOLENOID_PULSE -> << f.op >> \o BE32(f.mask) \o BE32(f.dur)
      [] f.op = ERM_SET -> << f.op >> \o BE32(f.mask) \o << f.arg >>
      [] OTHER -> << f.op >>

\* The packed structs of bleuart_pin_ctrl.h, 32-bit fields big-endian.
EncodeB(f) ==
    CASE f.op = GPIO_CONFIGURE -> << f.op >> \o BE32(f.port) \o BE32(f.mask) \o << f.arg >>
      [] f.op \in {GPIO_SET, GPIO_CLEAR} -> << f.op >> \o BE32(f.port) \o BE32(f.mask)
      [] f.op = PWM_SET -> << f.op >> \o BE32(f.port) \o BE32(f.mask) \o << f.arg >>
      [] OTHER -> << f.op >>

(***************************************************************************)
(* State.  The sketch runs one of the two protocol drivers on its BLE UART *)
(* (TrueTouch::service or BleUartPinCtrl::service).                        *)
(***************************************************************************)
VARIABLES
    drain_arg,         \* util.hpp on its own: the mask and actuator count given
    drain_mask,        \* the mask after the clear_highest_bit calls so far
    drain_bits,        \* what get_highest_bit returned before each of them
    firmware,          \* which driver the sketch's loop calls
    rx,                \* the BLEUart FIFO (_uart)
    wire,              \* bytes the peer has sent and the FIFO has not yet got
    pending,           \* frames sent and not yet dispatched
    nsent,             \* frames sent so far
    fingers_to_pulse,  \* _fingers_to_pulse
    pulse_dur_ms,      \* _pulse_dur_ms
    pulse_start_ms,    \* _pulse_start_ms
    millis,            \* millis(), 32 bits
    uptime,            \* milliseconds really elapsed since start
    solenoid_out,      \* last write to each pin of _solenoid_pins
    erm_out,           \* last write to each pin of _erm_pins
    gpio_out,          \* family B: last level write to each Arduino pin
    gpio_mode,         \* family B: last pinMode of each Arduino pin
    job_mask,          \* mask of the PULSE job accepted last (0: none)
    activations,       \* actuators that job has activated so far, in order
    act_clock,         \* millis() at the latest activation
    act_uptime,        \* uptime at the latest activation
    retried,           \* a poll has found the frame at the head incomplete
    last               \* what the most recent service() call did

transport == << rx, wire, pending, nsent >>
job_vars == << fingers_to_pulse, pulse_dur_ms, pulse_start_ms >>
clock_vars == << millis, uptime >>
pins_A == << solenoid_out, erm_out >>
pins_B == << gpio_out, gpio_mode >>
history == << job_mask, activations, act_clock, act_uptime >>
drain_vars == << drain_arg, drain_mask, drain_bits >>

vars == << drain_vars, firmware, transport, job_vars, clock_vars, pins_A, pins_B, history, retried, last >>

CallLog(call, avail, head, used, acted, params, tickW, dispW, mid, now, again) ==
    [call |-> call, avail |-> avail, head |-> head, used |-> used, acted |-> acted,
     params |-> params, tickW |-> tickW, dispW |-> dispW, mid |-> mid, now |-> now,
     again |-> again]

NoJob == PulseJob(Word(0), Word(0), Word(0))

NoCall == CallLog("none", 0, -1, 0, <<>>, NoParams, <<>>, <<>>, NoJob, Word(0), FALSE)

\* millis() when the device starts; the second value is two ticks before the
\* 32-bit counter wraps.
BootClocks == {Word(0), U32(65535, 65534)}

\* After construction and init(): every actuator pin is an output driven low.
NoDrain == [mask |-> Word(0), count |-> 0]

\* The driver object after construction and init().
Reset ==
    /\ fingers_to_pulse = Word(0)
    /\ pulse_dur_ms = Word(0)
    /\ pulse_start_ms = Word(0)
    /\ millis \in BootClocks
    /\ uptime = 0
    /\ solenoid_out = [i \in 0..(SOLENOID_COUNT - 1) |-> Level("digitalWrite", LOW)]
    /\ erm_out = [i \in 0..(ERM_COUNT - 1) |-> Level("digitalWrite", LOW)]
    /\ gpio_out = [i \in 0..(GPIO_PIN_COUNT - 1) |-> Level("digitalWrite", LOW)]
    /\ gpio_mode = [i \in 0..(GPIO_PIN_COUNT - 1) |-> Level("pinMode", INPUT)]
    /\ job_mask = Word(0)
    /\ activations = <<>>
    /\ act_clock = Word(0)
    /\ act_uptime = 0
    /\ retried = FALSE
    /\ last = NoCall

\* The device as the sketch starts it: nothing sent, nothing received.
Booted ==
    /\ rx = <<>> /\ wire = <<>> /\ pending = <<>>
    /\ nsent = 0
    /\ Reset

Init ==
    /\ firmware \in {"TrueTouch", "BleUartPinCtrl"}
    /\ drain_arg = NoDrain /\ drain_mask = Word(0) /\ drain_bits = <<>>
    /\ Booted

(***************************************************************************)
(* Environment actions.                                                    *)
(***************************************************************************)
\* The peer sends one more frame, once the previous one has left the wire.
Send(bytes, f) ==
    /\ nsent < MaxFrames
    /\ wire = <<>>
    /\ wire' = bytes
    /\ pending' = Append(pending, f)
    /\ nsent' = nsent + 1
    /\ last' = NoCall
    /\ UNCHANGED << drain_vars, firmware, rx, job_vars, clock_vars, pins_A, pins_B, history, retried >>

SendA(f) == firmware = "TrueTouch" /\ Send(EncodeA(f), f)

SendB(f) == firmware = "BleUartPinCtrl" /\ Send(EncodeB(f), f)

\* The transport hands the next k bytes to the FIFO.
Deliver(k) ==
    /\ k \in 1..Len(wire)
    /\ rx' = rx \o Take(wire, k)
    /\ wire' = Drop(wire, k)
    /\ last' = NoCall
    /\ UNCHANGED << drain_vars, firmware, pending, nsent, job_vars, clock_vars, pins_A, pins_B, history,
                    retried >>

InHold ==
    /\ fingers_to_pulse # Word(0)
    /\ HoldPending(millis, pulse_start_ms, pulse_dur_ms)

\* One millisecond passes (followed where the clock is read: in TrueTouch).
AdvanceClock ==
    /\ firmware = "TrueTouch"
    /\ uptime < MaxClock \/ (InHold /\ ~Less32(Word(MaxDuration), pulse_dur_ms))
    /\ millis' = Inc32(millis)
    /\ uptime' = uptime + 1
    /\ last' = NoCall
    /\ UNCHANGED << drain_vars, firmware, transport, job_vars, pins_A, pins_B, history, retried >>

(***************************************************************************)
(* The driver loop calls service().                                        *)
(***************************************************************************)
\* The actuators a sequence of pin writes activates (digitalWrite HIGH).
SeqMap(ws) == [i \in 1..Len(ws) |-> ws[i].idx]

IsActivation(w) == w.tbl = "erm" /\ w.fn = "digitalWrite" /\ w.val = HIGH

Activated(ws) == SeqMap(SelectSeq(ws, IsActivation))

ServiceA ==
    \E t \in {service_gpio_pulse(PulseJob(fingers_to_pulse, pulse_dur_ms, pulse_start_ms), millis)} :
    \E d \in {DispatchA(rx, t.job, millis)} :
    \E ws \in {t.writes \o d.writes} :
    \E pulse \in {d.acted = << "handle_solenoid_pulse" >>} :
        /\ firmware = "TrueTouch"
        /\ rx' = d.fifo
        /\ fingers_to_pulse' = d.job.mask
        /\ pulse_dur_ms' = d.job.dur
        /\ pulse_start_ms' = d.job.start
        /\ solenoid_out' = ApplyWrites(solenoid_out, "solenoid", ws)
        /\ erm_out' = ApplyWrites(erm_out, "erm", ws)
        /\ pending' = IF d.acted # <<>> /\ pending # <<>> THEN Tail(pending) ELSE pending
        /\ job_mask' = IF pulse
                       THEN (IF Activated(d.writes) # <<>> THEN d.job.mask ELSE Word(0))
                       ELSE job_mask
        /\ activations' = IF pulse THEN Activated(d.writes)
                          ELSE activations \o Activated(t.writes)
        /\ act_clock' = IF Activated(ws) # <<>> THEN millis ELSE act_clock
        /\ act_uptime' = IF Activated(ws) # <<>> THEN uptime ELSE act_uptime
        /\ last' = CallLog("TrueTouch", Len(rx), IF rx = <<>> THEN -1 ELSE Head(rx),
                           Len(rx) - Len(d.fifo), d.acted, d.params,
                           t.writes, d.writes, t.job, millis, retried)
        /\ retried' = IF d.acted # <<>> THEN FALSE ELSE (retried \/ rx # <<>>)
        /\ UNCHANGED << drain_vars, firmware, wire, nsent, clock_vars, pins_B >>

ServiceB ==
    \E d \in {DispatchB(rx, NoJob)} :
        /\ firmware = "BleUartPinCtrl"
        /\ rx' = d.fifo
        /\ gpio_out' = ApplyWrites(gpio_out, "gpio", d.writes)
        /\ gpio_mode' = ApplyWrites(gpio_mode, "gpio_mode", d.writes)
        /\ pending' = IF d.acted # <<>> /\ pending # <<>> THEN Tail(pending) ELSE pending
        /\ last' = CallLog("BleUartPinCtrl", Len(rx), IF rx = <<>> THEN -1 ELSE Head(rx),
                           Len(rx) - Len(d.fifo), d.acted, d.params,
                           <<>>, d.writes, NoJob, millis, retried)
        /\ retried' = IF d.acted # <<>> THEN FALSE ELSE (retried \/ rx # <<>>)
        /\ UNCHANGED << drain_vars, firmware, wire, nsent, job_vars, clock_vars, pins_A, history >>

Next ==
    \/ \E f \in FramesA : SendA(f)
    \/ \E f \in FramesB : SendB(f)
    \/ \E k \in {1, Len(wire)} : Deliver(k)
    \/ AdvanceClock
    \/ ServiceA
    \/ ServiceB

Spec == Init /\ [][Next]_vars

(***************************************************************************)
(* The pulse scheduler on its own, for termination: the TrueTouch driver,  *)
(* PULSE frames only, each delivered whole.  The sketch's loop() calls     *)
(* service() again and again and the millisecond clock keeps running, so   *)
(* a service() call that is due (hold elapsed) is eventually made, and a   *)
(* millisecond eventually passes.                                          *)
(***************************************************************************)
PulseFrames == {f \in FramesA : f.op = SOLENOID_PULSE}

HoldElapsed ==
    /\ fingers_to_pulse # Word(0)
    /\ ~HoldPending(millis, pulse_start_ms, pulse_dur_ms)

InitPulse == Init /\ firmware = "TrueTouch"

NextPulse ==
    \/ \E f \in PulseFrames : SendA(f)
    \/ Deliver(Len(wire))
    \/ AdvanceClock
    \/ ServiceA

LiveSpec ==
    /\ InitPulse
    /\ [][NextPulse]_vars
    /\ WF_vars(HoldElapsed /\ ServiceA)
    /\ WF_vars(AdvanceClock)

(***************************************************************************)
(* util.hpp on its own: a mask and an actuator count are chosen, then      *)
(* get_highest_bit and clear_highest_bit are applied to the mask until it  *)
(* is empty.                                                               *)
(***************************************************************************)
DrainHalves == {0, 1, 26, 37, 63, 64, 66, 32768, 65535}

DrainMasks == {U32(h, l) : h \in {0, 1, 32768}, l \in DrainHalves}

DrainCounts == {SOLENOID_COUNT, ERM_COUNT, GPIO_PIN_COUNT}

InitDrain ==
    /\ firmware = "TrueTouch"
    /\ drain_arg \in [mask : DrainMasks, count : DrainCounts]
    /\ drain_mask = drain_arg.mask
    /\ drain_bits = <<>>
    /\ millis = Word(0)
    /\ Booted

DrainStep ==
    /\ drain_mask # Word(0)
    /\ drain_bits' = Append(drain_bits, get_highest_bit(drain_mask))
    /\ drain_mask' = clear_highest_bit(drain_mask)
    /\ UNCHANGED << drain_arg, firmware, transport, job_vars, clock_vars, pins_A, pins_B,
                    history, retried, last >>

DrainSpec == InitDrain /\ [][DrainStep]_vars

(***************************************************************************)
(* The dispatcher with whole frames queued back to back: valid frames      *)
(* only, each delivered whole.  loop() calls service() again and again, so *)
(* a call that finds a complete frame at the head is eventually made.      *)
(***************************************************************************)
QueueFrames ==
    {f \in FramesA :
        \/ f.op = SOLENOID_WRITE /\ f.arg = OUT_HIGH
        \/ f.op = ERM_SET /\ f.arg = 200
        \/ f.op = SOLENOID_PULSE /\ f.mask = Word(26) /\ f.dur = Word(MaxDuration)}

FrameAtHead ==
    /\ firmware = "TrueTouch"
    /\ Len(rx) > 0
    /\ Head(rx) \in {SOLENOID_WRITE, SOLENOID_PULSE, ERM_SET}
    /\ Len(rx) >= (CASE Head(rx) = SOLENOID_WRITE -> SizeofSolenoidWrite
                     [] Head(rx) = SOLENOID_PULSE -> SizeofSolenoidPulse
                     [] Head(rx) = ERM_SET -> SizeofErmSet)

NextQueue ==
    \/ \E f \in QueueFrames : SendA(f)
    \/ Deliver(Len(wire))
    \/ AdvanceClock
    \/ ServiceA

QueueSpec ==
    /\ InitPulse
    /\ [][NextQueue]_vars
    /\ WF_vars(FrameAtHead /\ ServiceA)

(***************************************************************************)
(* The decoder on its own: the FIFO holds one family-A frame of arbitrary  *)
(* field bytes, and service() is called.                                   *)
(***************************************************************************)
DecodeBytes == {0, 1, 37, 128}

FieldBytes == {<< a, b, c, d >> : a \in DecodeBytes, b \in DecodeBytes,
                                  c \in DecodeBytes, d \in DecodeBytes}

DurationBytes == {<< 0, 0, 0, 0 >>, << 0, 0, 0, 2 >>, << 1, 0, 37, 128 >>}

DecodeFrames ==
    {<< SOLENOID_WRITE >> \o m \o << l >> : m \in FieldBytes, l \in Levels}
    \cup {<< SOLENOID_PULSE >> \o m \o d : m \in FieldBytes, d \in DurationBytes}
    \cup {<< ERM_SET >> \o m \o << v >> : m \in FieldBytes, v \in Intensities}

InitDecode ==
    /\ firmware = "TrueTouch"
    /\ drain_arg = NoDrain /\ drain_mask = Word(0) /\ drain_bits = <<>>
    /\ rx \in DecodeFrames
    /\ wire = <<>> /\ pending = <<>>
    /\ nsent = 1
    /\ millis = Word(0)
    /\ Reset

DecodeSpec == InitDecode /\ [][ServiceA]_vars

(***************************************************************************)
(* The scheduler next to a transport that is empty, holds part of a frame  *)
(* or holds a byte that is no opcode: one PULSE, one WRITE and one         *)
(* unrecognized byte, delivered whole or byte by byte, same fairness.      *)
(***************************************************************************)
PollFrames ==
    {f \in FramesA :
        \/ f.op = SOLENOID_PULSE /\ f.mask = Word(26) /\ f.dur = Word(MaxDuration)
        \/ f.op = SOLENOID_WRITE /\ f.arg = OUT_HIGH
        \/ f.op = UNKNOWN_OPCODE}

NextPoll ==
    \/ \E f \in PollFrames : SendA(f)
    \/ \E k \in {1, Len(wire)} : Deliver(k)
    \/ AdvanceClock
    \/ ServiceA

PollSpec ==
    /\ InitPulse
    /\ [][NextPoll]_vars
    /\ WF_vars(HoldElapsed /\ ServiceA)
    /\ WF_vars(AdvanceClock)

(***************************************************************************)
(* Properties.                                                             *)
(***************************************************************************)
Job == PulseJob(fingers_to_pulse, pulse_dur_ms, pulse_start_ms)

\* The frame widths of the two opcode tables.
Recognized(call, head) ==
    \/ call = "TrueTouch" /\ head \in {SOLENOID_WRITE, SOLENOID_PULSE, ERM_SET}
    \/ call = "BleUartPinCtrl" /\ head \in {GPIO_CONFIGURE, GPIO_SET, GPIO_CLEAR, PWM_SET}

FrameWidth(call, head) ==
    IF call = "TrueTouch"
    THEN CASE head = SOLENOID_WRITE -> 6
           [] head = SOLENOID_PULSE -> 9
           [] head = ERM_SET -> 6
    ELSE CASE head = GPIO_CONFIGURE -> 10
           [] head = GPIO_SET -> 9
           [] head = GPIO_CLEAR -> 9
           [] head = PWM_SET -> 10

Starved ==
    /\ last.call # "none"
    /\ Recognized(last.call, last.head)
    /\ last.avail < FrameWidth(last.call, last.head)

\* C1: a service() call that finds a recognized opcode at the head of the
\* FIFO and fewer bytes than that opcode's frame width consumes nothing, lets
\* no handler act, writes no pin from the dispatcher, leaves the PulseJob as
\* the scheduler tick of that call left it, and leaves the same bytes in the
\* FIFO for the next call.
C1_StarvedFrameNoEffect ==
    Starved =>
        /\ last.used = 0
        /\ last.acted = <<>>
        /\ last.dispW = <<>>
        /\ Job = last.mid
        /\ Len(rx) = last.avail
        /\ Head(rx) = last.head

\* A PULSE frame with 8 of its 9 bytes in the FIFO, polled while a job is
\* live and the tick of that call has just moved to the next actuator.
C1_Witness ==
    /\ Starved
    /\ last.call = "TrueTouch"
    /\ last.head = SOLENOID_PULSE
    /\ last.avail = SizeofSolenoidPulse - 1
    /\ last.tickW # <<>>
    /\ last.mid.mask # Word(0)

\* C3: a service() call lets at most one handler act and shrinks the FIFO
\* by 0 bytes or by exactly the frame width of the opcode at its head.
C3_WholeFrameOrNothing ==
    last.call # "none" =>
        /\ Len(last.acted) <= 1
        /\ Len(rx) = last.avail - last.used
        /\ \/ last.used = 0 /\ last.acted = <<>>
           \/ /\ Recognized(last.call, last.head)
              /\ last.used = FrameWidth(last.call, last.head)
              /\ Len(last.acted) = 1

\* A PULSE frame is dispatched while bytes of the next frame are already in
\* the FIFO behind it; they stay there.
C3_Witness ==
    /\ last.call = "TrueTouch"
    /\ last.head = SOLENOID_PULSE
    /\ last.used = SizeofSolenoidPulse
    /\ last.avail > SizeofSolenoidPulse
    /\ rx # <<>>

Encode(fw, f) == IF fw = "TrueTouch" THEN EncodeA(f) ELSE EncodeB(f)

RECURSIVE EncodeAll(_, _)
EncodeAll(fw, fs) ==
    IF fs = <<>> THEN <<>> ELSE Encode(fw, Head(fs)) \o EncodeAll(fw, Tail(fs))

\* The handler and the decoded record the peer means by frame f.
HandlerOf(fw, f) ==
    IF fw = "TrueTouch"
    THEN CASE f.op = SOLENOID_WRITE -> "handle_solenoid_write"
           [] f.op = SOLENOID_PULSE -> "handle_solenoid_pulse"
           [] f.op = ERM_SET -> "handle_erm_set"
           [] OTHER -> "none"
    ELSE CASE f.op = GPIO_CONFIGURE -> "handle_gpio_configure"
           [] f.op \in {GPIO_SET, GPIO_CLEAR} -> "handle_gpio_write"
           [] f.op = PWM_SET -> "handle_pwm_set"
           [] OTHER -> "none"

FieldsOf(f) == Params(f.op, f.port, f.mask, f.dur, f.arg)

\* What one service() call does when the FIFO holds exactly the bytes of f.
WholeFrame(fw, f, job, now) ==
    IF fw = "TrueTouch" THEN DispatchA(Encode(fw, f), job, now)
    ELSE DispatchB(Encode(fw, f), job)

\* The bytes in the FIFO and on the wire are those of the frames not yet
\* dispatched, in order.
Framed == rx \o wire = EncodeAll(firmware, pending)

\* A service() call in which a handler acts does what the same call does
\* with the oldest undispatched frame alone and whole in the FIFO.
DispatchesWhole ==
    (last'.call # "none" /\ last'.acted # <<>>) =>
        /\ pending # <<>>
        /\ LET f == Head(pending)
               whole == WholeFrame(firmware, f, last'.mid, millis)
           IN  /\ last'.acted = << HandlerOf(firmware, f) >>
               /\ last'.params = FieldsOf(f)
               /\ last'.used = Len(Encode(firmware, f))
               /\ last'.dispW = whole.writes
               /\ firmware = "TrueTouch" => Job' = whole.job

\* C2: fragmentation transparency.  However the bytes of the frames arrive
\* and however service() calls fall between them, the FIFO and the wire
\* always hold exactly the undispatched frames, and each dispatch invokes
\* the handler of the oldest undispatched frame once, with the field values
\* the peer sent, the pin writes and the PulseJob that frame gives when it
\* is whole in the FIFO at a single call.
C2_FragmentationTransparent == []Framed /\ [][DispatchesWhole]_vars

\* A PULSE frame dispatched after an earlier poll found it incomplete.
C2_Witness ==
    /\ last.acted = << "handle_solenoid_pulse" >>
    /\ last.again
    /\ last.params.bitset = Word(26)
    /\ last.params.dur = Word(MaxDuration)

\* The set bits of a mask, highest first, and the mask of a list of bits.
RECURSIVE BitsFrom(_, _)
BitsFrom(m, i) ==
    IF i < 0 THEN <<>>
    ELSE (IF Bit(m, i) = 1 THEN << i >> ELSE <<>>) \o BitsFrom(m, i - 1)

DescBits(m) == BitsFrom(m, 31)

RECURSIVE MaskOfBits(_)
MaskOfBits(bits) ==
    IF bits = <<>> THEN Word(0)
    ELSE LET r == MaskOfBits(Tail(bits))
             b == Head(bits)
         IN  IF b < 16 THEN U32(r.hi, r.lo + (2 ^ b)) ELSE U32(r.hi + (2 ^ (b - 16)), r.lo)

TickActed == last'.call = "TrueTouch" /\ last'.tickW # <<>>

\* While the job accepted last is not replaced, the actuators activated so
\* far are the first bits of its mask in descending order, the remaining
\* mask holds the bit of the active actuator and the bits below it, and a
\* drained mask means every bit of the mask has been activated.
DescendingPrefix ==
    job_mask # Word(0) =>
        LET desc == DescBits(job_mask)
            k == Len(activations)
        IN  /\ 1 <= k /\ k <= Len(desc)
            /\ activations = Take(desc, k)
            /\ IF fingers_to_pulse # Word(0)
               THEN fingers_to_pulse = MaskOfBits(Drop(desc, k - 1))
               ELSE k = Len(desc)

\* A completed pulse step drives the actuator of the highest remaining bit
\* low and removes that bit alone from the remaining mask.
StepRemovesTop ==
    TickActed =>
        LET bits == DescBits(fingers_to_pulse)
        IN  /\ bits # <<>>
            /\ Head(last'.tickW) = Wr("erm", Head(bits), "digitalWrite", LOW)
            /\ last'.mid.mask = MaskOfBits(Tail(bits))

\* C4: a PULSE job accepted with mask m and not replaced by a later PULSE
\* activates exactly the set bits of m, each once, in strictly descending
\* index order; each completed pulse step removes exactly the highest set
\* bit of the remaining mask.
C4_DescendingEachOnce == []DescendingPrefix /\ [][StepRemovesTop]_vars

\* The job {1,3,4} has run to its end: 4, then 3, then 1.
C4_Witness ==
    /\ job_mask = Word(26)
    /\ activations = << 4, 3, 1 >>
    /\ fingers_to_pulse = Word(0)

\* n >= d for a small natural n and a 32-bit d.
AtLeast(n, d) == d.hi = 0 /\ n >= d.lo

\* A scheduler tick that drives an actuator low runs at a clock value with
\* now - pulse_start_ms >= duration_ms, pulse_start_ms being the clock value
\* at that actuator's own activation, so that at least duration_ms
\* milliseconds have passed since.
ReleasedAfterHold ==
    TickActed =>
        /\ ~Less32(Sub32(millis, pulse_start_ms), pulse_dur_ms)
        /\ pulse_start_ms = act_clock
        /\ activations # <<>>
        /\ Head(last'.tickW) =
               Wr("erm", activations[Len(activations)], "digitalWrite", LOW)
        /\ AtLeast(uptime - act_uptime, pulse_dur_ms)

\* A scheduler tick inside the hold window writes no pin and leaves the
\* PulseJob as it is.
HoldTickIdle ==
    (last'.call = "TrueTouch"
        /\ fingers_to_pulse # Word(0)
        /\ Less32(Sub32(millis, pulse_start_ms), pulse_dur_ms)) =>
            /\ last'.tickW = <<>>
            /\ last'.mid = Job

\* C5: the scheduler releases an actuator only at a service() call with
\* now() - pulse_start_ms >= duration_ms, where pulse_start_ms was recorded
\* at that actuator's own activation, so each actuator is held for at least
\* duration_ms; a tick inside the hold window does nothing.
C5_HeldForDuration == [][ReleasedAfterHold /\ HoldTickIdle]_vars

\* Actuator 5 is released after a hold of MaxDuration ms during which the
\* 32-bit clock wrapped.
C5_Witness ==
    /\ last.call = "TrueTouch"
    /\ last.tickW = << Wr("erm", 5, "digitalWrite", LOW) >>
    /\ job_mask = Word(32)
    /\ pulse_dur_ms = Word(MaxDuration)
    /\ act_clock.hi = 65535
    /\ last.now.hi = 0

\* The actuators whose pin was last written by a pulse activation.
PulseOn == {i \in 0..(ERM_COUNT - 1) : erm_out[i] = Level("digitalWrite", HIGH)}

\* C6: the pulse scheduler drives one actuator high at a time: at most one
\* pulse-driven actuator is at its active level in any reachable state.
C6_OnePulseAtATime == Cardinality(PulseOn) <= 1

PulseDispatched == last'.call = "TrueTouch" /\ last'.acted = << "handle_solenoid_pulse" >>

\* C8 as stated: a PULSE command with mask 0 leaves remaining_mask,
\* duration_ms and pulse_start_ms as they were before the command.
C8_ZeroMaskNoStateChange ==
    [][(PulseDispatched /\ Head(pending).mask = Word(0)) => Job' = last'.mid]_vars

\* C8 amended: a PULSE command with mask 0 writes no pin and leaves
\* pulse_start_ms unchanged, but stores its duration in duration_ms and sets
\* remaining_mask to 0, which ends a live PulseJob.
C8_ZeroMaskStoresAndStops ==
    [][(PulseDispatched /\ Head(pending).mask = Word(0)) =>
            /\ fingers_to_pulse' = Word(0)
            /\ pulse_dur_ms' = Head(pending).dur
            /\ pulse_start_ms' = last'.mid.start
            /\ last'.dispW = <<>>
            /\ erm_out' = ApplyWrites(erm_out, "erm", last'.tickW)
            /\ solenoid_out' = solenoid_out]_vars

\* A PULSE with mask 0 and duration 0 has ended the live job {1,3,4} of
\* duration MaxDuration, whose actuator 4 is still high.
C8_Witness ==
    /\ last.acted = << "handle_solenoid_pulse" >>
    /\ last.params.bitset = Word(0)
    /\ last.mid.mask = Word(26)
    /\ last.mid.dur = Word(MaxDuration)
    /\ pulse_dur_ms = Word(0)
    /\ fingers_to_pulse = Word(0)
    /\ 4 \in PulseOn

\* A non-zero mask with every set bit below ERM_COUNT.
ValidMask(m) == m # Word(0) /\ m.hi = 0 /\ m.lo < 2 ^ ERM_COUNT

\* A PULSE with a valid non-zero mask dispatched while the job is live
\* after the tick of the same call: the new mask and duration replace the
\* job, and the actuator of the new mask's highest bit is driven high.
ReplacesLiveJob ==
    (PulseDispatched /\ ValidMask(Head(pending).mask) /\ last'.mid.mask # Word(0)) =>
        LET m2 == Head(pending).mask
        IN  /\ fingers_to_pulse' = m2
            /\ pulse_dur_ms' = Head(pending).dur
            /\ pulse_start_ms' = millis
            /\ job_mask' = m2
            /\ activations' = << Head(DescBits(m2)) >>
            /\ last'.dispW = << Wr("erm", Head(DescBits(m2)), "digitalWrite", HIGH) >>

\* The scheduler tick activates only bits of the mask accepted last that
\* are still in the remaining mask.
TickActivatesCurrentJob ==
    last'.call = "TrueTouch" =>
        \A i \in 1..Len(last'.tickW) :
            IsActivation(last'.tickW[i]) =>
                /\ Bit(job_mask, last'.tickW[i].idx) = 1
                /\ Bit(fingers_to_pulse, last'.tickW[i].idx) = 1

\* C9: a PULSE with a valid non-zero mask m2 accepted while a job m1 is live
\* replaces it: remaining_mask = m2, duration_ms = the new duration, the
\* actuator at highest_bit(m2) is activated in that call, and from then on
\* the scheduler activates bits of m2 only, so bits of m1 outside m2 are not
\* activated again.
C9_PulseReplacesJob == [][ReplacesLiveJob /\ TickActivatesCurrentJob]_vars

\* The live job {1,3,4} (actuator 4 high) is replaced by the job {5}.
C9_Witness ==
    /\ last.acted = << "handle_solenoid_pulse" >>
    /\ last.mid.mask = Word(26)
    /\ fingers_to_pulse = Word(32)
    /\ job_mask = Word(32)
    /\ activations = << 5 >>

Live == fingers_to_pulse # Word(0)

\* The tick of the last call drained the remaining mask.
JobCompleted == last.call = "TrueTouch" /\ last.tickW # <<>> /\ last.mid.mask = Word(0)

PulseTaken == last.call = "TrueTouch" /\ last.acted = << "handle_solenoid_pulse" >>

\* A job activates at most ERM_COUNT actuators.
StepsBounded == Len(activations) <= ERM_COUNT

\* The tick that drains the mask resets pulse_start_ms, and after its
\* writes no actuator the job activated is still pulse-high.
CompletesClean ==
    (TickActed /\ last'.mid.mask = Word(0)) =>
        /\ last'.mid.start = Word(0)
        /\ Len(activations) = Len(DescBits(job_mask))
        /\ \A i \in 1..Len(activations) :
               ApplyWrites(erm_out, "erm", last'.tickW)[activations[i]]
                   = Level("digitalWrite", LOW)

\* C7: with service() called again and again and the clock running, a live
\* PulseJob reaches remaining_mask = 0 unless another PULSE command is
\* taken first, after at most ERM_COUNT pulse steps; the tick that ends it
\* resets pulse_start_ms and leaves every actuator the job activated low.
C7_JobTerminates ==
    /\ Live ~> (JobCompleted \/ PulseTaken)
    /\ []StepsBounded
    /\ [][CompletesClean]_vars

\* The job {1,3,4} ended by its third pulse step, nothing else dispatched.
C7_Witness ==
    /\ JobCompleted
    /\ job_mask = Word(26)
    /\ activations = << 4, 3, 1 >>
    /\ last.acted = <<>>
    /\ pulse_start_ms = Word(0)
    /\ PulseOn = {}

WritesOf(ws) == {ws[i] : i \in 1..Len(ws)}

MaskBits(m, count) == {i \in 0..(count - 1) : Bit(m, i) = 1}

WriteDispatched == last'.call = "TrueTouch" /\ last'.acted = << "handle_solenoid_write" >>

ErmSetDispatched == last'.call = "TrueTouch" /\ last'.acted = << "handle_erm_set" >>

\* The handler's writes are one write of level lvl to each pin of S in table
\* tbl and nothing else.
WritesExactly(tbl, S, fn, val) ==
    WritesOf(last'.dispW) = {Wr(tbl, i, fn, val) : i \in S}

SolenoidWriteExact ==
    WriteDispatched =>
        LET f == Head(pending)
            S == MaskBits(f.mask, SOLENOID_COUNT)
            val == IF f.arg = OUT_HIGH THEN HIGH ELSE LOW
        IN  /\ f.op = SOLENOID_WRITE
            /\ WritesExactly("solenoid", S, "digitalWrite", val)
            /\ \A i \in DOMAIN solenoid_out :
                   solenoid_out'[i] = IF i \in S THEN Level("digitalWrite", val)
                                      ELSE solenoid_out[i]
            /\ erm_out' = ApplyWrites(erm_out, "erm", last'.tickW)

ErmSetExact ==
    ErmSetDispatched =>
        LET f == Head(pending)
            S == MaskBits(f.mask, ERM_COUNT)
            afterTick == ApplyWrites(erm_out, "erm", last'.tickW)
        IN  /\ f.op = ERM_SET
            /\ WritesExactly("erm", S, "analogWrite", f.arg)
            /\ \A i \in DOMAIN erm_out :
                   erm_out'[i] = IF i \in S THEN Level("analogWrite", f.arg)
                                 ELSE afterTick[i]
            /\ solenoid_out' = solenoid_out

\* C10: a WRITE command with mask m and level L writes L (high iff
\* L = OUT_HIGH) to exactly the solenoid actuators 0..4 whose bit is set in
\* m, an INTENSITY_SET command writes its intensity to exactly the ERM
\* actuators 0..5 whose bit is set in m; bits outside the range are ignored
\* and the command writes no other pin.
C10_WritesExactlyMaskedPins == [][SolenoidWriteExact /\ ErmSetExact]_vars

\* WRITE with bits 0, 2, 5, 31 and a level byte of 1 has driven solenoids 0
\* and 2 high and left 1, 3, 4 low; an INTENSITY_SET of 200 was taken before.
C10_Witness ==
    /\ last.acted = << "handle_solenoid_write" >>
    /\ last.params.bitset = U32(32768, 37)
    /\ last.params.arg = OUT_HIGH
    /\ WritesOf(last.dispW) = {Wr("solenoid", 0, "digitalWrite", HIGH),
                               Wr("solenoid", 2, "digitalWrite", HIGH)}
    /\ \A i \in DOMAIN solenoid_out :
           solenoid_out[i] = Level("digitalWrite", IF i \in {0, 2} THEN HIGH ELSE LOW)
    /\ {i \in DOMAIN erm_out : erm_out[i] = Level("analogWrite", 200)} = {1, 4}

\* The mask's highest set bit is not the index of an ERM actuator.
TopBitOutOfRange(m) == m # Word(0) /\ Head(DescBits(m)) >= ERM_COUNT

AbortedTrigger ==
    (PulseDispatched /\ TopBitOutOfRange(Head(pending).mask)) =>
        /\ fingers_to_pulse' = Word(0)
        /\ last'.dispW = <<>>
        /\ erm_out' = ApplyWrites(erm_out, "erm", last'.tickW)
        /\ solenoid_out' = solenoid_out
        /\ job_mask' = Word(0)
        /\ activations' = <<>>

\* C11: a PULSE command whose mask has its highest set bit outside the ERM
\* range leaves remaining_mask = 0 and activates no actuator, also when the
\* mask has valid lower bits.
C11_OutOfRangePulseAborts == [][AbortedTrigger]_vars

\* PULSE with bits 1 and 6 taken while a job was live: mask 0, no write.
C11_Witness ==
    /\ last.acted = << "handle_solenoid_pulse" >>
    /\ last.params.bitset = Word(66)
    /\ last.mid.mask # Word(0)
    /\ last.dispW = <<>>
    /\ fingers_to_pulse = Word(0)

\* Nothing the dispatcher can take: no byte, a byte that is no opcode, or
\* fewer bytes than the frame of the opcode at the head.
Blocked ==
    \/ rx = <<>>
    \/ ~Recognized("TrueTouch", Head(rx))
    \/ Len(rx) < FrameWidth("TrueTouch", Head(rx))

\* Every call runs the tick on the job as it stood, whatever the transport
\* holds; past the hold the tick releases the active actuator and removes
\* the top bit of the mask.
TickRunsFirst ==
    last'.call = "TrueTouch" =>
        /\ last'.mid = service_gpio_pulse(Job, millis).job
        /\ last'.tickW = service_gpio_pulse(Job, millis).writes
        /\ HoldElapsed =>
               /\ last'.tickW # <<>>
               /\ Head(last'.tickW) =
                      Wr("erm", Head(DescBits(fingers_to_pulse)), "digitalWrite", LOW)
               /\ last'.mid.mask = MaskOfBits(Tail(DescBits(fingers_to_pulse)))
        /\ Blocked => Job' = last'.mid

\* A complete frame at the head is dispatched in the call that finds it,
\* whether a job is live, in its hold, or not.
DispatchRunsAfter ==
    (last'.call = "TrueTouch" /\ ~Blocked) =>
        /\ Len(last'.acted) = 1
        /\ last'.used = FrameWidth("TrueTouch", Head(rx))

\* C12: the tick runs on every service() call before and regardless of the
\* dispatcher, so a live job next to an empty, starved or stalled transport
\* still runs to completion (or to the next PULSE); and a live job never
\* keeps a complete frame at the head from being dispatched in that call.
C12_NeitherBlocksTheOther ==
    /\ (Live /\ Blocked) ~> (JobCompleted \/ PulseTaken)
    /\ [][TickRunsFirst /\ DispatchRunsAfter]_vars

\* The job {1,3,4} ran to its end behind a byte that is no opcode, which
\* was polled before and is still at the head.
C12_Witness ==
    /\ JobCompleted
    /\ job_mask = Word(26)
    /\ activations = << 4, 3, 1 >>
    /\ last.head = UNKNOWN_OPCODE
    /\ last.again
    /\ rx # <<>>

\* popcount(m & valid_range) for the actuator count c.
PopcountInRange(m, c) == Cardinality(MaskBits(m, c))

Popcount(m) == Len(DescBits(m))

StrictlyDescending(s) == \A i, j \in 1..Len(s) : i < j => s[i] > s[j]

\* C13 as stated: after exactly popcount(m & valid_range) applications of
\* highest_bit and clear_highest_bit the mask is 0.
C13_DrainsInRangePopcount ==
    Len(drain_bits) = PopcountInRange(drain_arg.mask, drain_arg.count)
        => drain_mask = Word(0)

\* C13 amended: the mask is 0 after exactly popcount(m) applications, every
\* set bit of the 32 counted whatever the actuator count, and not before;
\* the bits reported are the set bits of m in strictly descending order.
\* The two counts agree when m has no bit at or above the actuator count.
C13_DrainsInPopcount ==
    /\ drain_bits = Take(DescBits(drain_arg.mask), Len(drain_bits))
    /\ StrictlyDescending(drain_bits)
    /\ drain_mask = MaskOfBits(Drop(DescBits(drain_arg.mask), Len(drain_bits)))
    /\ (drain_mask = Word(0)) <=> (Len(drain_bits) = Popcount(drain_arg.mask))
    /\ get_highest_bit(drain_arg.mask) < drain_arg.count
           => Popcount(drain_arg.mask) = PopcountInRange(drain_arg.mask, drain_arg.count)

\* Mask 0x42 for the six ERM actuators: one bit in range, two steps to drain.
C13_Witness ==
    /\ drain_arg = [mask |-> Word(66), count |-> ERM_COUNT]
    /\ drain_bits = << 6, 1 >>
    /\ drain_mask = Word(0)
    /\ PopcountInRange(drain_arg.mask, drain_arg.count) = 1

ZeroPulseDispatched == PulseDispatched /\ Head(pending).mask = Word(0)

\* The command writes no pin: the pins after the call are the pins after the
\* tick of that call.
ZeroPulseWritesNothing ==
    ZeroPulseDispatched =>
        /\ last'.dispW = <<>>
        /\ erm_out' = ApplyWrites(erm_out, "erm", last'.tickW)
        /\ solenoid_out' = solenoid_out
        /\ fingers_to_pulse' = Word(0)
        /\ activations' = <<>>

\* An idle scheduler stays idle and writes nothing in its tick.
IdleTickWritesNothing ==
    (last'.call = "TrueTouch" /\ fingers_to_pulse = Word(0)) =>
        /\ last'.tickW = <<>>
        /\ last'.mid.mask = Word(0)

\* C14: a PULSE command with mask 0 writes no pin and leaves
\* remaining_mask = 0, whether it arrives with the scheduler idle, in a hold
\* or past one; the idle scheduler then writes nothing in its ticks.
C14_ZeroMaskPulseIdle == [][ZeroPulseWritesNothing /\ IdleTickWritesNothing]_vars

\* A PULSE with mask 0 taken in the hold of the job {5}: no write, idle.
C14_Witness ==
    /\ last.acted = << "handle_solenoid_pulse" >>
    /\ last.params.bitset = Word(0)
    /\ last.mid.mask = Word(32)
    /\ HoldPending(last.now, last.mid.start, last.mid.dur)
    /\ last.tickW = <<>>
    /\ last.dispW = <<>>
    /\ fingers_to_pulse = Word(0)

\* The value of four wire bytes read big-endian, the first at position i.
BigEndian(bytes, i) ==
    U32((bytes[i] * 256) + bytes[i + 1], (bytes[i + 2] * 256) + bytes[i + 3])

\* A handler acted on the frame at the head of the FIFO: its decoded
\* record holds the opcode and the one-byte field as they are on the wire
\* and each 32-bit field as the big-endian value of its four bytes.
DecodesBigEndian ==
    (last'.call = "TrueTouch" /\ last'.acted # <<>>) =>
        /\ last'.params.command = rx[1]
        /\ last'.params.bitset = BigEndian(rx, 2)
        /\ IF rx[1] = SOLENOID_PULSE
           THEN last'.params.dur = BigEndian(rx, 6)
           ELSE last'.params.arg = rx[6]

\* The decoded values are the ones used: the pins written, the PulseJob.
UsesDecoded ==
    (last'.call = "TrueTouch" /\ last'.acted # <<>>) =>
        CASE rx[1] = SOLENOID_WRITE ->
                 WritesExactly("solenoid", MaskBits(BigEndian(rx, 2), SOLENOID_COUNT),
                               "digitalWrite", IF rx[6] = OUT_HIGH THEN HIGH ELSE LOW)
          [] rx[1] = ERM_SET ->
                 WritesExactly("erm", MaskBits(BigEndian(rx, 2), ERM_COUNT),
                               "analogWrite", rx[6])
          [] rx[1] = SOLENOID_PULSE ->
                 /\ pulse_dur_ms' = BigEndian(rx, 6)
                 /\ fingers_to_pulse' =
                        IF TopBitOutOfRange(BigEndian(rx, 2)) THEN Word(0)
                        ELSE BigEndian(rx, 2)
                 /\ WritesOf(last'.dispW) =
                        IF ValidMask(BigEndian(rx, 2))
                        THEN {Wr("erm", Head(DescBits(BigEndian(rx, 2))), "digitalWrite", HIGH)}
                        ELSE {}

\* C15: decoding a family-A frame gives each 32-bit field (mask, duration)
\* the big-endian value of its four wire bytes, first byte most significant,
\* before the field is compared or used, and takes the one-byte fields
\* (opcode, level, intensity) as they are on the wire.
C15_FieldsDecodedBigEndian == [][DecodesBigEndian /\ UsesDecoded]_vars

\* PULSE with mask bytes 00 00 00 25 and duration bytes 01 00 25 80: mask
\* 0x25, duration 0x01002580, actuator 5 driven high.
C15_Witness ==
    /\ last.acted = << "handle_solenoid_pulse" >>
    /\ last.params.bitset = Word(37)
    /\ last.params.dur = U32(256, 9600)
    /\ pulse_dur_ms = U32(256, 9600)
    /\ fingers_to_pulse = Word(37)
    /\ PulseOn = {5}

\* The TrueTouch FIFO has a byte at its head that is none of 1, 2, 3.
Stalled ==
    /\ firmware = "TrueTouch"
    /\ rx # <<>>
    /\ ~Recognized("TrueTouch", Head(rx))

\* A call that finds the stream stalled: no handler, no dispatcher write,
\* no byte read, and the job is what the tick of the call left.
StalledCallDoesNothing ==
    (Stalled /\ last'.call = "TrueTouch") =>
        /\ last'.acted = <<>>
        /\ last'.dispW = <<>>
        /\ last'.used = 0
        /\ rx' = rx
        /\ Job' = last'.mid
        /\ solenoid_out' = solenoid_out
        /\ erm_out' = ApplyWrites(erm_out, "erm", last'.tickW)

\* No step removes the byte: whatever happens next, it is still at the
\* head, the bytes behind it only grow, and no frame has been dispatched.
StallPersists ==
    Stalled =>
        /\ Stalled'
        /\ Head(rx') = Head(rx)
        /\ Len(rx') >= Len(rx)
        /\ Len(pending') >= Len(pending)
        /\ Take(pending', Len(pending)) = pending
        /\ last'.acted = <<>>

\* C16: with a leading byte that is not 1, 2 or 3, service() of family A
\* invokes no handler, writes no pin for a command and reads no byte; the
\* byte stays at the head in every later state and no frame behind it is
\* ever dispatched, however many bytes arrive.
C16_UnknownOpcodeStalls == [][StalledCallDoesNothing /\ StallPersists]_vars

\* A whole WRITE frame has arrived behind the byte 7 and was polled more
\* than once: nothing read, nothing written.
C16_Witness ==
    /\ last.call = "TrueTouch"
    /\ last.head = UNKNOWN_OPCODE
    /\ last.again
    /\ Len(pending) = 2
    /\ pending[2].op = SOLENOID_WRITE
    /\ Len(rx) = 1 + SizeofSolenoidWrite
    /\ \A i \in DOMAIN solenoid_out : solenoid_out[i] = Level("digitalWrite", LOW)

PulseHigh == Level("digitalWrite", HIGH)

\* A PULSE is taken while the job is live after the tick of the call and
\* its active actuator is high: the command writes nothing low and the
\* actuator is high after the call.
LeftHigh ==
    (PulseDispatched /\ last'.mid.mask # Word(0)) =>
        LET a == Head(DescBits(last'.mid.mask))
        IN  ApplyWrites(erm_out, "erm", last'.tickW)[a] = PulseHigh =>
                /\ \A w \in WritesOf(last'.dispW) : w.val = HIGH
                /\ erm_out'[a] = PulseHigh

\* The tick writes only actuators of the mask accepted last: none after a
\* mask that was 0 or out of range, and never one the new mask leaves out.
TickWritesOnlyJobBits ==
    last'.call = "TrueTouch" =>
        \A w \in WritesOf(last'.tickW) :
            /\ w.tbl = "erm"
            /\ w.idx \in MaskBits(job_mask, ERM_COUNT)

\* C17: a PULSE command accepted while actuator a of a live job is high
\* issues no deactivation write: a is high afterwards, and the scheduler
\* ticks that follow write only bits of the new mask, so they never drive a
\* low unless a is one of them.
C17_PreemptedActuatorStaysOn == [][LeftHigh /\ TickWritesOnlyJobBits]_vars

\* The job {1,3,4} was replaced by {5} while actuator 4 was high; the job
\* {5} has run to its end and actuator 4 is still high.
C17_Witness ==
    /\ JobCompleted
    /\ job_mask = Word(32)
    /\ fingers_to_pulse = Word(0)
    /\ PulseOn = {4}

\* Frames dispatched so far.
Dispatched == nsent - Len(pending)

\* The FIFO holds the first n undispatched frames whole.
HoldsFrames(n) ==
    /\ firmware = "TrueTouch"
    /\ n <= Len(pending)
    /\ Len(rx) >= Len(EncodeAll(firmware, Take(pending, n)))

\* A call that finds at least one whole frame dispatches the oldest one and
\* no other: the byte it peeks is that frame's opcode, it reads that frame's
\* bytes, and the next frame's opcode is then at the head.
OneFramePerCall ==
    (last'.call = "TrueTouch" /\ HoldsFrames(1)) =>
        /\ last'.head = Head(pending).op
        /\ last'.acted = << HandlerOf(firmware, Head(pending)) >>
        /\ last'.params = FieldsOf(Head(pending))
        /\ last'.used = Len(Encode(firmware, Head(pending)))
        /\ pending' = Tail(pending)
        /\ Dispatched' = Dispatched + 1
        /\ rx' = Drop(rx, Len(Encode(firmware, Head(pending))))
        /\ \A n \in 1..MaxFrames : HoldsFrames(n + 1) => HoldsFrames(n)'
        /\ HoldsFrames(2) => Head(rx') = pending[2].op

\* C18: with k >= 1 whole valid frames back to back in the transport,
\* successive service() calls dispatch them in arrival order, one per call,
\* each call peeking only the opcode of the oldest frame; so n whole frames
\* at the head are all dispatched, after n calls.
C18_OneFramePerCallInOrder ==
    /\ \A c \in 0..MaxFrames : \A n \in 1..MaxFrames :
           (Dispatched = c /\ HoldsFrames(n)) ~> (Dispatched >= c + n)
    /\ [][OneFramePerCall]_vars

\* Two frames were whole in the FIFO; the call took the WRITE and left the
\* PULSE, whose opcode is now at the head.
C18_Witness ==
    /\ last.call = "TrueTouch"
    /\ last.avail = SizeofSolenoidWrite + SizeofSolenoidPulse
    /\ last.acted = << "handle_solenoid_write" >>
    /\ last.used = SizeofSolenoidWrite
    /\ Len(pending) = 1
    /\ rx = Encode(firmware, pending[1])
    /\ Head(rx) = SOLENOID_PULSE
    /\ fingers_to_pulse = Word(0)

\* Every set bit of the mask is the index of an ERM actuator.
BitsBelowErmCount(m) == \A i \in 0..31 : Bit(m, i) = 1 => i < ERM_COUNT

\* The tick called on this job at this time would take one of its two
\* invalid-index branches.
TickErrorPath(job, now) ==
    /\ job.mask # Word(0)
    /\ ~HoldPending(now, job.start, job.dur)
    /\ \/ InvalidIndex(get_highest_bit(job.mask))
       \/ /\ clear_highest_bit(job.mask) # Word(0)
          /\ InvalidIndex(get_highest_bit(clear_highest_bit(job.mask)))

\* In a call, the tick is off the error path and every write through the
\* ERM table, by the tick or by a handler, has an index in 0..ERM_COUNT-1.
ErmIndexInRange ==
    last'.call = "TrueTouch" =>
        /\ ~TickErrorPath(Job, millis)
        /\ last'.mid.mask = Word(0) => (fingers_to_pulse = Word(0) \/ last'.tickW # <<>>)
        /\ \A w \in WritesOf(last'.tickW) \cup WritesOf(last'.dispW) :
               w.tbl = "erm" => w.idx \in 0..(ERM_COUNT - 1)

\* C19: between service() calls every set bit of _fingers_to_pulse is below
\* ERM_COUNT; so the invalid-index branches of the tick are never taken,
\* the tick never clears the mask through them, and _erm_pins is indexed
\* within 0..5.
C19_MaskBitsInRange ==
    /\ [](BitsBelowErmCount(fingers_to_pulse) /\ ~TickErrorPath(Job, millis))
    /\ [][ErmIndexInRange]_vars

\* The job {1,3,4} is under way after another frame: the tick has released
\* actuator 4 and activated 3, and bits 1 and 3 remain.
C19_Witness ==
    /\ last.call = "TrueTouch"
    /\ last.tickW = << Wr("erm", 4, "digitalWrite", LOW), Wr("erm", 3, "digitalWrite", HIGH) >>
    /\ fingers_to_pulse = Word(10)
    /\ nsent = 2
    /\ pending = <<>>
    /\ job_mask = Word(26)

\* Milliseconds really passed since the active actuator was driven high.
HeldFor == uptime - act_uptime

\* A call with a live job releases the active actuator if and only if
\* duration_ms milliseconds have really passed since its activation,
\* whatever the 32-bit clock values at the activation and at the call.
ReleasedExactlyWhenDue ==
    (last'.call = "TrueTouch" /\ fingers_to_pulse # Word(0)) =>
        /\ pulse_start_ms = act_clock
        /\ Sub32(millis, pulse_start_ms) = Word(HeldFor)
        /\ (last'.tickW # <<>>) <=> AtLeast(HeldFor, pulse_dur_ms)
        /\ last'.tickW # <<>> =>
               Head(last'.tickW) =
                   Wr("erm", activations[Len(activations)], "digitalWrite", LOW)

\* C20: the hold test takes now() - pulse_start_ms modulo 2^32, so when the
\* clock wraps during a hold the active actuator is released at the first
\* service() call at which duration_ms milliseconds have really passed
\* since its activation: not at an earlier call, and not a clock period
\* later.
C20_HoldSurvivesClockWrap == [][ReleasedExactlyWhenDue]_vars

\* Actuator 5 was driven high at clock 0xFFFFFFFF and is released at the
\* call MaxDuration ms later, the clock having wrapped in between.
C20_Witness ==
    /\ last.call = "TrueTouch"
    /\ act_clock = U32(65535, 65535)
    /\ last.now = Word(MaxDuration - 1)
    /\ pulse_dur_ms = Word(MaxDuration)
    /\ last.tickW # <<>>
    /\ Head(last.tickW) = Wr("erm", 5, "digitalWrite", LOW)
    /\ uptime - act_uptime = MaxDuration
    /\ fingers_to_pulse = Word(0)

\* The BleUartPinCtrl FIFO has a QUERY opcode at its head.
QueryAtHead ==
    /\ firmware = "BleUartPinCtrl"
    /\ rx # <<>>
    /\ Head(rx) \in {GPIO_QUERY, QUERY_STATE}

\* A call that finds a QUERY opcode: no byte read, no pin or pin mode
\* written.
QueryCallDoesNothing ==
    (QueryAtHead /\ last'.call = "BleUartPinCtrl") =>
        /\ last'.head = Head(rx)
        /\ last'.used = 0
        /\ last'.acted = <<>>
        /\ last'.dispW = <<>>
        /\ rx' = rx
        /\ gpio_out' = gpio_out
        /\ gpio_mode' = gpio_mode

\* No step removes the QUERY byte: it is at the head in every later state,
\* the bytes behind it only grow, and no frame is dispatched.
QueryPersists ==
    QueryAtHead =>
        /\ QueryAtHead'
        /\ Head(rx') = Head(rx)
        /\ Len(rx') >= Len(rx)
        /\ Len(pending') >= Len(pending)
        /\ Take(pending', Len(pending)) = pending
        /\ last'.acted = <<>>
        /\ gpio_out' = gpio_out
        /\ gpio_mode' = gpio_mode

\* C21: in family B, with GPIO_QUERY or QUERY_STATE as the leading byte,
\* service() reads no byte and does no pin I/O, on this call and on every
\* later one; the byte stays at the head and no frame delivered after it is
\* ever dispatched.
C21_QueryOpcodeStalls == [][QueryCallDoesNothing /\ QueryPersists]_vars

\* A whole GPIO_SET frame has arrived behind a GPIO_QUERY byte that was
\* polled more than once: nothing read, every pin as at the start.
C21_Witness ==
    /\ last.call = "BleUartPinCtrl"
    /\ last.head = GPIO_QUERY
    /\ last.again
    /\ Len(pending) = 2
    /\ pending[2].op = GPIO_SET
    /\ Len(rx) = 1 + SizeofGpioSet
    /\ \A i \in DOMAIN gpio_out : gpio_out[i] = Level("digitalWrite", LOW)

\* A PULSE whose highest set bit is ERM_COUNT - 1 = 5 is accepted: the mask
\* is stored and entry 5 of the ERM table is driven high.
PulseTakesErmRange ==
    (PulseDispatched /\ Head(pending).mask # Word(0)
        /\ Head(DescBits(Head(pending).mask)) = ERM_COUNT - 1) =>
            /\ fingers_to_pulse' = Head(pending).mask
            /\ last'.dispW = << Wr("erm", ERM_COUNT - 1, "digitalWrite", HIGH) >>
            /\ erm_out'[ERM_COUNT - 1] = PulseHigh

\* WRITE stops at the five solenoid entries: bit 5 of its mask writes
\* nothing, in either table.
WriteIgnoresBitFive ==
    (WriteDispatched /\ Bit(Head(pending).mask, SOLENOID_COUNT) = 1) =>
        /\ \A w \in WritesOf(last'.dispW) :
               w.tbl = "solenoid" /\ w.idx \in 0..(SOLENOID_COUNT - 1)
        /\ erm_out' = ApplyWrites(erm_out, "erm", last'.tickW)

\* PULSE and the tick go through the ERM table only: their writes name no
\* solenoid entry, and the solenoid pins change in a WRITE call only.
PulseNeverWritesSolenoid ==
    last'.call = "TrueTouch" =>
        /\ \A w \in WritesOf(last'.tickW) : w.tbl = "erm"
        /\ PulseDispatched => \A w \in WritesOf(last'.dispW) : w.tbl = "erm"
        /\ ~WriteDispatched => solenoid_out' = solenoid_out

=============================================================================
